---- MODULE Spec2Model ----
(***************************************************************************)
(* A model of scripts/stage_for_chai.py: staging of ColabFold outputs      *)
(* (paired / uniref / env alignments and template hits) for Chai-1.        *)
(*                                                                         *)
(* Python strings are TLA+ strings; the raw text of a csv cell and of a    *)
(* fasta header is a sequence of one-character strings, so that split() is *)
(* computed.  A Python dict is a sequence of [key, val] records in         *)
(* insertion order.  A path is a tuple of path components below chai_dir.  *)
(***************************************************************************)
EXTENDS Integers, Sequences, FiniteSets, TLC

\* ------------------------------------------------------------------ bounds
MaxRows == 2      \* rows of one alignment set of one query
MaxChains == 2    \* declared chains of one complex
MaxHits == 1      \* rows of one template hit table
NumIds == 2       \* complexes of a batch run

\* ----------------------------------------------------------------- helpers
Range(s) == {s[i] : i \in DOMAIN s}

SeqsUpTo(S, lo, hi) == UNION {[1..n -> S] : n \in lo..hi}

RECURSIVE Join(_)
\* "".join(chars)
Join(chars) == IF chars = <<>> THEN "" ELSE Head(chars) \o Join(Tail(chars))

Digit == <<"0", "1", "2", "3", "4", "5", "6", "7", "8", "9">>

RECURSIVE str(_)
\* str(i) of a non-negative int: its decimal numeral
str(i) == IF i < 10 THEN Digit[i + 1] ELSE str(i \div 10) \o Digit[(i % 10) + 1]

RECURSIVE split(_, _)
\* text.split(sep): the list of the strings between the separators
split(text, sep) ==
    IF \E i \in DOMAIN text : text[i] = sep
    THEN LET k == CHOOSE i \in DOMAIN text :
                      text[i] = sep /\ \A j \in 1..(i - 1) : text[j] # sep
         IN  <<Join(SubSeq(text, 1, k - 1))>> \o split(SubSeq(text, k + 1, Len(text)), sep)
    ELSE <<Join(text)>>

\* text.split(sep, maxsplit=1)[-1]: what follows the first separator, or all of it
split_once_last(text, sep) ==
    IF \E i \in DOMAIN text : text[i] = sep
    THEN LET k == CHOOSE i \in DOMAIN text :
                      text[i] = sep /\ \A j \in 1..(i - 1) : text[j] # sep
         IN  Join(SubSeq(text, k + 1, Len(text)))
    ELSE Join(text)

\* ------------------------------------------------------------------- dicts
Keys(d) == {d[i].key : i \in DOMAIN d}
Values(d) == {d[i].val : i \in DOMAIN d}
\* the position of key k, for k in d
Get(d, k) == CHOOSE i \in DOMAIN d : d[i].key = k

\* d[k]

Lookup(d, k) == d[Get(d, k)].val

\* d[k] = v
Put(d, k, v) ==
    IF k \in Keys(d)
    THEN [i \in DOMAIN d |-> IF d[i].key = k THEN [key |-> k, val |-> v] ELSE d[i]]
    ELSE Append(d, [key |-> k, val |-> v])

\* ------------------------------------------------- external collaborators
ChainLetters == <<"A", "B", "C", "D">>

\* chain 1 -> "A", chain 2 -> "B", ...
get_chain_letter(i) == ChainLetters[i]

\* the name of the table of a query sequence: a function of the sequence alone
expected_basename(query_sequence) == "sha_" \o query_sequence \o ".aligned.pqt"

QUERY == "query"
UNIREF90 == "uniref90"
BFD_UNICLUST == "bfd_uniclust"

\* AlignedParquetModel.validate: the columns carry known values
validate(table) ==
    \A i \in DOMAIN table :
        /\ table[i].source_database \in {QUERY, UNIREF90, BFD_UNICLUST}
        /\ table[i].comment = "null"

\* ------------------------------------------------------ read_colabfold_inputs
HeaderPrefix == <<"p", "r", "o", "t", "e", "i", "n", "|">>

Fasta(i, seq) == [header |-> HeaderPrefix \o <<get_chain_letter(i)>>, sequence |-> seq]

\* the complex of one row: a chain per colon-separated sequence, lettered from 1
complex_of(cell) ==
    LET sequences == split(cell, ":")
    IN  [i \in 1..Len(sequences) |-> Fasta(i, sequences[i])]

RECURSIVE read_rows(_, _)
read_rows(rows, retval) ==
    IF rows = <<>> THEN retval
    ELSE read_rows(Tail(rows), Put(retval, Head(rows).id, complex_of(Head(rows).sequence)))

read_colabfold_inputs(csv) == read_rows(csv.rows, <<>>)

\* ------------------------------------------------------ gather_colabfold_msas
\* the check of line 84 weakened to "some length"
paired_lengths_nonempty(paired) == Cardinality({Len(paired[i].val) : i \in DOMAIN paired}) >= 1

\* line 83-84: the paired MSA has the same number of rows for all queries
paired_lengths(paired) == {Len(paired[i].val) : i \in DOMAIN paired}

paired_lengths_ok(paired) == Cardinality(paired_lengths(paired)) = 1

\* line 94
same_keys(uniref, env, paired) == Keys(uniref) = Keys(env) /\ Keys(env) = Keys(paired)

\* line 106 without its condition: the identity row gets the key "0"
pairing_key_every_row(i) == str(i)

\* line 106
pairing_key(i) == IF i > 0 THEN str(i) ELSE ""

\* lines 100-109: the record of row i (counted from 0) of the paired set
paired_record(i, sequence) ==
    [sequence |-> sequence,
     source_database |-> IF i = 0 THEN QUERY ELSE UNIREF90,
     pairing_key |-> pairing_key(i),
     comment |-> "null"]

single_record(sequence, source) ==
    [sequence |-> sequence, source_database |-> source,
     pairing_key |-> "", comment |-> "null"]

\* lines 110-118 over uniref_msa[query] instead of uniref_msa[query][1:]
msa_rows_keep_identity(paired, uniref, env) ==
    [i \in 1..Len(paired) |-> paired_record(i - 1, paired[i])]
    \o [i \in 1..Len(uniref) |-> single_record(uniref[i], UNIREF90)]
    \o [i \in 1..(Len(env) - 1) |-> single_record(env[i + 1], BFD_UNICLUST)]

\* lines 99-127: the rows of the table of one query
msa_rows(paired, uniref, env) ==
    [i \in 1..Len(paired) |-> paired_record(i - 1, paired[i])]
    \o [i \in 1..(Len(uniref) - 1) |-> single_record(uniref[i + 1], UNIREF90)]
    \o [i \in 1..(Len(env) - 1) |-> single_record(env[i + 1], BFD_UNICLUST)]

\* ----------------------------------------------------------------- main
\* line 174
chai_seq_matches(sequences, seq) == SelectSeq(sequences, LAMBDA s : s.sequence = seq)

\* line 176 with matches[0] for matches.pop()
pop_first(matches) == matches[1]

\* line 176: list.pop() takes the last element
pop(matches) == matches[Len(matches)]

\* lines 176-178
chai_id(matches) == split_once_last(pop(matches).header, "|")

RECURSIVE build_mapping(_, _, _)
\* lines 172-178: the mapping built, and whether the assertion of line 175 held
\* for every item (the loop stops at the first item it fails for)
build_mapping(items, sequences, acc) ==
    IF items = <<>> THEN [ok |-> TRUE, mapping |-> acc]
    ELSE LET matches == chai_seq_matches(sequences, Head(items).val)
         IN  IF Len(matches) = 0 THEN [ok |-> FALSE, mapping |-> acc]
             ELSE build_mapping(Tail(items), sequences,
                                Put(acc, Head(items).key, chai_id(matches)))

\* ------------------------------------------------ gather_colabfold_templates
\* lines 144-146 keeping only the rows whose query_id is a key
remap_templates_dropping(hits, chain_id_mapping) ==
    LET kept == SelectSeq(hits, LAMBDA h : str(h.query_id) \in Keys(chain_id_mapping))
    IN  [ok |-> TRUE,
         table |-> [i \in DOMAIN kept |->
                       [kept[i] EXCEPT
                           !.query_id = Lookup(chain_id_mapping, str(kept[i].query_id))]]]

\* lines 144-146: query_id becomes chain_id_mapping[str(query_id)] in every row and
\* nothing else changes; a KeyError (ok = FALSE) when some str(query_id) is no key
remap_templates(hits, chain_id_mapping) ==
    IF \A i \in DOMAIN hits : str(hits[i].query_id) \in Keys(chain_id_mapping)
    THEN [ok |-> TRUE,
          table |-> [i \in DOMAIN hits |->
                        [hits[i] EXCEPT
                            !.query_id = Lookup(chain_id_mapping, str(hits[i].query_id))]]]
    ELSE [ok |-> FALSE, table |-> <<>>]

\* ------------------------------------------------------------------ inputs
\* What a run reads: the csv files of colabfold_out_dir and, per identifier,
\* the three a3m files and the template file (absent or a list of hits).
ResidueTexts == {<<"A", "A">>, <<"B", "B">>}
Residues == {Join(t) : t \in ResidueTexts}
QueryOrders == {<<"101">>, <<"102">>, <<"101", "102">>, <<"102", "101">>}
SortedQueryOrders == {<<"101">>, <<"102">>, <<"101", "102">>}
HitQueryIds == {101, 102}
Columns == <<"id", "sequence">>

RECURSIVE cell_of(_)
\* the csv cell that declares the chains: their texts joined by colons
cell_of(chains) ==
    IF Len(chains) = 1 THEN chains[1] ELSE chains[1] \o <<":">> \o cell_of(Tail(chains))

\* the dicts an a3m file can hold: queries in file order, each with its rows
Dicts(orders, rows) ==
    UNION {{[i \in 1..Len(o) |-> [key |-> o[i], val |-> f[i]]] : f \in [1..Len(o) -> rows]}
           : o \in orders}

hits_of(qs) == [i \in 1..Len(qs) |-> [query_id |-> qs[i], subject_id |-> "pdb" \o str(i)]]

Template(qs) == [exists |-> TRUE, hits |-> hits_of(qs)]
NoTemplate == [exists |-> FALSE, hits |-> <<>>]

Artifact(p, u, e, t) == [paired |-> p, uniref |-> u, env |-> e, template |-> t]

OneCsv(rows) == <<[columns |-> Columns, rows |-> rows]>>

\* one complex of one chain, one query, every row of every set free
RichWorlds ==
    {[csv_files |-> OneCsv(<<[id |-> "c1", sequence |-> c]>>),
      colab |-> [id \in {"c1"} |->
                    Artifact(<<[key |-> "101", val |-> p]>>, <<[key |-> "101", val |-> u]>>,
                             <<[key |-> "101", val |-> e]>>, Template(<<101>>))]]
     : c \in ResidueTexts, p \in SeqsUpTo(Residues, 1, MaxRows),
       u \in SeqsUpTo(Residues, 1, MaxRows), e \in SeqsUpTo(Residues, 1, MaxRows)}

\* one complex, up to two queries in each set, free chains, key sets and hits
PipelineWorlds ==
    {[csv_files |-> OneCsv(<<[id |-> "c1", sequence |-> cell_of(c)]>>),
      colab |-> [id \in {"c1"} |-> Artifact(p, u, e, t)]]
     : c \in SeqsUpTo(ResidueTexts, 1, MaxChains),
       p \in Dicts(QueryOrders, SeqsUpTo({"AA"}, 1, MaxRows)),
       u \in Dicts(SortedQueryOrders, SeqsUpTo(Residues, 1, 1)),
       e \in Dicts(SortedQueryOrders, {<<"AA">>}),
       t \in {NoTemplate} \cup {Template(qs) : qs \in SeqsUpTo(HitQueryIds, 0, MaxHits)}}

One(q, rows) == <<[key |-> q, val |-> rows]>>
Good == Artifact(One("101", <<"AA">>), One("101", <<"AA", "BB">>), One("101", <<"AA">>),
                 Template(<<101>>))

\* per complex of a batch: a staging that succeeds, and one that fails at each check
Scenarios ==
    {[cell |-> <<"A", "A">>, art |-> Good],
     [cell |-> <<"A", "A">>,
      art |-> [Good EXCEPT !.paired = One("101", <<"AA">>) \o One("102", <<"AA", "AA">>)]],
     [cell |-> <<"A", "A">>, art |-> [Good EXCEPT !.env = One("102", <<"AA">>)]],
     [cell |-> <<"B", "B">>, art |-> Good],
     [cell |-> <<"A", "A">>, art |-> [Good EXCEPT !.template = NoTemplate]],
     [cell |-> <<"A", "A">>, art |-> [Good EXCEPT !.template = Template(<<102>>)]]}

BatchIds == {"c" \o str(i) : i \in 1..NumIds}

BatchWorlds ==
    {[csv_files |-> OneCsv([i \in 1..NumIds |->
                               [id |-> "c" \o str(i), sequence |-> f["c" \o str(i)].cell]]),
      colab |-> [id \in BatchIds |-> f[id].art]]
     : f \in [BatchIds -> Scenarios]}

GoodRow == [id |-> "c1", sequence |-> <<"A", "A">>]

\* a directory without exactly one csv file, or a csv with other columns
MalformedWorlds ==
    {[csv_files |-> fs, colab |-> [id \in {"c1"} |-> Good]]
     : fs \in {<<>>, OneCsv(<<GoodRow>>) \o OneCsv(<<GoodRow>>),
               <<[columns |-> <<"id", "seq">>, rows |-> <<GoodRow>>]>>}}

Worlds == RichWorlds \cup PipelineWorlds \cup BatchWorlds \cup MalformedWorlds

\* ------------------------------------------------------------------- state
VARIABLES
    input,                \* the files read, fixed during the run
    pc,                   \* the position of main
    error,                \* the source line of the check that raised, or "none"
    fasta_entries,        \* main: identifier -> declared chains
    idx,                  \* main: the position of the for loop of line 159
    paired_msa, uniref_msa, env_msa, retval, qpos,  \* gather_colabfold_msas
    colabfold_id_to_seq,  \* main, line 164
    colab_id_to_chai_id,  \* main, line 172
    dirs,                 \* the directories made
    files,                \* the files under chai_dir: path -> content
    writes                \* the writes so far, in order: path and content

msa_vars == <<paired_msa, uniref_msa, env_msa, retval, qpos>>
main_vars == <<fasta_entries, idx, colabfold_id_to_seq, colab_id_to_chai_id>>
disk_vars == <<dirs, files, writes>>
vars == <<input, pc, error, main_vars, msa_vars, disk_vars>>

Init ==
    /\ input \in Worlds
    /\ pc = "start"
    /\ error = "none"
    /\ fasta_entries = <<>>
    /\ idx = 0
    /\ paired_msa = <<>> /\ uniref_msa = <<>> /\ env_msa = <<>>
    /\ retval = <<>> /\ qpos = 0
    /\ colabfold_id_to_seq = <<>>
    /\ colab_id_to_chai_id = <<>>
    /\ dirs = {}
    /\ files = <<>>
    /\ writes = <<>>

identifier == fasta_entries[idx].key
sequences == fasta_entries[idx].val
artifact == input.colab[identifier]

\* the exception caught in the loop of line 159, which goes on
raise_and_continue(line) ==
    /\ pc' = "for"
    /\ error' = line

\* an uncaught exception leaves main: nothing runs after it
raise(line) ==
    /\ pc' = "failed"
    /\ error' = line

\* path.write: the file holds the content, whatever it held
write(path, content) ==
    /\ files' = (path :> content) @@ files
    /\ writes' = Append(writes, [path |-> path, content |-> content])

\* ------------------------------------------------------------------ actions
\* main, lines 155-157
ReadInputs ==
    /\ pc = "start"
    /\ IF Len(input.csv_files) # 1
       THEN raise("156") /\ UNCHANGED fasta_entries
       ELSE IF input.csv_files[1].columns # Columns
            THEN raise("59") /\ UNCHANGED fasta_entries
            ELSE /\ fasta_entries' = read_colabfold_inputs(input.csv_files[1])
                 /\ pc' = "for"
                 /\ UNCHANGED error
    /\ UNCHANGED <<input, idx, colabfold_id_to_seq, colab_id_to_chai_id, msa_vars, disk_vars>>

\* main, lines 159-161: the next identifier, or the end of the run
NextIdentifier ==
    /\ pc = "for"
    /\ IF idx = Len(fasta_entries)
       THEN pc' = "done" /\ UNCHANGED <<idx, dirs>>
       ELSE /\ idx' = idx + 1
            /\ dirs' = dirs \cup {<<fasta_entries[idx + 1].key>>}
            /\ pc' = "gather_msas"
    /\ UNCHANGED <<input, error, fasta_entries, colabfold_id_to_seq, colab_id_to_chai_id,
                   msa_vars, files, writes>>

\* gather_colabfold_msas, lines 78-96
ReadMsas ==
    /\ pc = "gather_msas"
    /\ dirs' = dirs \cup {<<identifier, "msas">>}
    /\ paired_msa' = artifact.paired
    /\ IF ~paired_lengths_ok(artifact.paired)
       THEN raise("84") /\ UNCHANGED <<uniref_msa, env_msa, retval, qpos>>
       ELSE /\ uniref_msa' = artifact.uniref
            /\ env_msa' = artifact.env
            /\ IF ~same_keys(artifact.uniref, artifact.env, artifact.paired)
               THEN raise("94") /\ UNCHANGED <<retval, qpos>>
               ELSE /\ retval' = <<>>
                    /\ qpos' = 1
                    /\ pc' = "for_query"
                    /\ UNCHANGED error
    /\ UNCHANGED <<input, main_vars, files, writes>>

\* gather_colabfold_msas, lines 97-132: one turn of the loop, or the return
WriteMsa ==
    /\ pc = "for_query"
    /\ IF qpos > Len(paired_msa)
       THEN /\ colabfold_id_to_seq' = retval
            /\ pc' = "check_sequences"
            /\ UNCHANGED <<error, retval, qpos, disk_vars>>
       ELSE LET query == paired_msa[qpos].key
                query_seq == Lookup(uniref_msa, query)[1]
                table == msa_rows(paired_msa[qpos].val, Lookup(uniref_msa, query),
                                  Lookup(env_msa, query))
            IN  IF ~validate(table)
                THEN raise("129") /\ UNCHANGED <<retval, qpos, disk_vars, colabfold_id_to_seq>>
                ELSE /\ write(<<identifier, "msas", expected_basename(query_seq)>>, table)
                     /\ retval' = Put(retval, query, query_seq)
                     /\ qpos' = qpos + 1
                     /\ UNCHANGED <<pc, error, dirs, colabfold_id_to_seq>>
    /\ UNCHANGED <<input, fasta_entries, idx, colab_id_to_chai_id,
                   paired_msa, uniref_msa, env_msa>>

\* main, line 169
CheckSequences ==
    /\ pc = "check_sequences"
    /\ IF Values(colabfold_id_to_seq) # {sequences[i].sequence : i \in DOMAIN sequences}
       THEN raise("169")
       ELSE pc' = "build_mapping" /\ UNCHANGED error
    /\ UNCHANGED <<input, main_vars, msa_vars, disk_vars>>

\* main, lines 172-178
BuildMapping ==
    /\ pc = "build_mapping"
    /\ LET built == build_mapping(colabfold_id_to_seq, sequences, <<>>)
       IN  /\ colab_id_to_chai_id' = built.mapping
           /\ IF built.ok THEN pc' = "gather_templates" /\ UNCHANGED error
                          ELSE raise("175")
    /\ UNCHANGED <<input, fasta_entries, idx, colabfold_id_to_seq, msa_vars, disk_vars>>

\* gather_colabfold_templates, lines 141-149
GatherTemplates ==
    /\ pc = "gather_templates"
    /\ IF ~artifact.template.exists
       THEN raise("142") /\ UNCHANGED <<files, writes>>
       ELSE LET templates == remap_templates(artifact.template.hits, colab_id_to_chai_id)
            IN  IF ~templates.ok
                THEN raise("145") /\ UNCHANGED <<files, writes>>
                ELSE /\ write(<<identifier, "all_template_hits.m8">>, templates.table)
                     /\ pc' = "write_fastas"
                     /\ UNCHANGED error
    /\ UNCHANGED <<input, main_vars, msa_vars, dirs>>

\* main, line 189
WriteFastas ==
    /\ pc = "write_fastas"
    /\ write(<<identifier, "chai.fasta">>, sequences)
    /\ pc' = "for"
    /\ UNCHANGED <<input, error, main_vars, msa_vars, dirs>>

Next ==
    \/ ReadInputs
    \/ NextIdentifier
    \/ ReadMsas
    \/ WriteMsa
    \/ CheckSequences
    \/ BuildMapping
    \/ GatherTemplates
    \/ WriteFastas

Spec == Init /\ [][Next]_vars

\* -------------------------------------------------------------- properties
\* The k-th complex of the csv, its artifacts, and what the run wrote for it.
Id(k) == fasta_entries[k].key
Art(k) == input.colab[Id(k)]
Declared(k) == fasta_entries[k].val
OutputsOf(id) == {p \in DOMAIN files : p[1] = id}
TableWrites(id) == SelectSeq(writes, LAMBDA w : Len(w.path) = 3 /\ w.path[1] = id)
Column(table) == [i \in DOMAIN table |-> table[i].sequence]
M8(id) == <<id, "all_template_hits.m8">>
ChaiFasta(id) == <<id, "chai.fasta">>

\* The n-th table written for complex k is that of the n-th query of its paired set.
QueryOf(k, n) == Art(k).paired[n].key
PairedOf(k, n) == Art(k).paired[n].val
UnirefOf(k, n) == Lookup(Art(k).uniref, QueryOf(k, n))
EnvOf(k, n) == Lookup(Art(k).env, QueryOf(k, n))

\* main holds the mapping of the current complex: line 178 has run for every query
MappingBuilt ==
    /\ idx > 0
    /\ \/ pc \in {"gather_templates", "write_fastas", "for", "done"}
       \/ pc = "failed" /\ error \in {"142", "145"}

\* gather_colabfold_templates has run for the current complex
TemplatesRan ==
    /\ idx > 0
    /\ \/ pc \in {"write_fastas", "for", "done"}
       \/ pc = "failed" /\ error \in {"142", "145"}

\* C1: whenever a query's table is written, the identity rows (row 0) of the paired,
\* narrow and broad sets of the query are equal, and the rows labelled QUERY of the
\* table carry the canonical query sequence that names the file.
C1_IdentityRowsAgree ==
    \A k \in 1..idx : \A n \in DOMAIN TableWrites(Id(k)) :
        LET w == TableWrites(Id(k))[n]
        IN  /\ PairedOf(k, n)[1] = UnirefOf(k, n)[1]
            /\ UnirefOf(k, n)[1] = EnvOf(k, n)[1]
            /\ w.path[3] = expected_basename(UnirefOf(k, n)[1])
            /\ \A i \in DOMAIN w.content :
                   w.content[i].source_database = QUERY
                       => w.content[i].sequence = UnirefOf(k, n)[1]

\* C2: the sequence column of every table written is the paired rows, then the
\* narrow rows without the first, then the broad rows without the first, in order
\* and with duplicates kept; its length is len(paired) + len(narrow) - 1 + len(broad) - 1.
C2_MergedIsConcatenation ==
    \A k \in 1..idx : \A n \in DOMAIN TableWrites(Id(k)) :
        LET w == TableWrites(Id(k))[n]
        IN  /\ Column(w.content) = PairedOf(k, n) \o Tail(UnirefOf(k, n)) \o Tail(EnvOf(k, n))
            /\ Len(w.content)
                   = Len(PairedOf(k, n)) + Len(UnirefOf(k, n)) - 1 + Len(EnvOf(k, n)) - 1

\* a table written from sets of two or more rows each, a narrow row repeating a paired one
C2_Witness ==
    \E k \in 1..idx : \E n \in DOMAIN TableWrites(Id(k)) :
        /\ Len(PairedOf(k, n)) >= 2 /\ Len(UnirefOf(k, n)) >= 2 /\ Len(EnvOf(k, n)) >= 2
        /\ UnirefOf(k, n)[2] = PairedOf(k, n)[2]
        /\ UnirefOf(k, n)[2] # EnvOf(k, n)[2]

Numeral == <<"1", "2", "3", "4", "5", "6", "7", "8", "9">>

\* C3: in every table written, the row at position i (from 0) has a non-empty
\* pairing_key exactly when it is a paired row with i > 0, and the key is then the
\* decimal numeral of i.
C3_PairingKey ==
    \A k \in 1..idx : \A n \in DOMAIN TableWrites(Id(k)) :
        LET table == TableWrites(Id(k))[n].content
        IN  \A r \in DOMAIN table :
                /\ table[r].pairing_key # "" <=> (r - 1 > 0 /\ r <= Len(PairedOf(k, n)))
                /\ table[r].pairing_key # "" => table[r].pairing_key = Numeral[r - 1]

\* a table written with a paired hit row and a narrow hit row
C3_Witness ==
    \E k \in 1..idx : \E n \in DOMAIN TableWrites(Id(k)) :
        /\ Len(PairedOf(k, n)) >= 2 /\ Len(UnirefOf(k, n)) >= 2
        /\ TableWrites(Id(k))[n].content[2].pairing_key = "1"

PairwiseDistinct(chains) ==
    \A i, j \in DOMAIN chains : i # j => chains[i].sequence # chains[j].sequence

\* C4: with pairwise distinct declared chain sequences, the mapping main builds is
\* defined for every upstream identifier gather_colabfold_msas returned and sends no
\* two of them to the same chain id.
C4_MappingTotalInjective ==
    (MappingBuilt /\ PairwiseDistinct(sequences)) =>
        /\ Keys(colab_id_to_chai_id) = Keys(colabfold_id_to_seq)
        /\ \A i, j \in DOMAIN colab_id_to_chai_id :
               i # j => colab_id_to_chai_id[i].val # colab_id_to_chai_id[j].val

DifferentPairedLengths(paired) ==
    \E i, j \in DOMAIN paired : Len(paired[i].val) # Len(paired[j].val)

\* C5: a complex whose paired set has hit lists of different lengths fails at the
\* check of line 84, and no file is written for it: no table, no
\* all_template_hits.m8, no chai.fasta.
C5_RaggedPairedFails ==
    \A k \in 1..idx :
        (DifferentPairedLengths(Art(k).paired) /\ ~(k = idx /\ pc = "gather_msas")) =>
            /\ k = idx /\ pc = "failed" /\ error = "84"
            /\ OutputsOf(Id(k)) = {}
            /\ \A i \in DOMAIN writes : writes[i].path[1] # Id(k)

C5_Witness ==
    /\ idx > 0 /\ pc = "failed" /\ error = "84"
    /\ DifferentPairedLengths(artifact.paired)

QueryIdText == (101 :> "101") @@ (102 :> "102")

Unmapped(hit) == \A i \in DOMAIN colab_id_to_chai_id :
                     colab_id_to_chai_id[i].key # QueryIdText[hit.query_id]

\* C6: when a template hit of the complex has a query_id that is no key of the
\* mapping, gather_colabfold_templates raises, all_template_hits.m8 and chai.fasta
\* are not written; and an all_template_hits.m8 that is written has a row for every
\* hit of the template file, in order.
C6_UnmappedHitFails ==
    /\ (TemplatesRan /\ artifact.template.exists
          /\ \E i \in DOMAIN artifact.template.hits : Unmapped(artifact.template.hits[i]))
        => /\ pc = "failed" /\ error = "145"
           /\ M8(identifier) \notin DOMAIN files
           /\ ChaiFasta(identifier) \notin DOMAIN files
    /\ \A k \in 1..idx :
           M8(Id(k)) \in DOMAIN files =>
               /\ Len(files[M8(Id(k))]) = Len(Art(k).template.hits)
               /\ \A i \in DOMAIN Art(k).template.hits :
                      files[M8(Id(k))][i].subject_id = Art(k).template.hits[i].subject_id

C6_Witness ==
    /\ TemplatesRan /\ artifact.template.exists
    /\ \E i \in DOMAIN artifact.template.hits : Unmapped(artifact.template.hits[i])
    /\ pc = "failed"
    /\ colab_id_to_chai_id # <<>>

\* C7: when a step of a complex fails, no output file of that complex is on disk.
C7_FailureLeavesNothing ==
    (pc = "failed" /\ idx > 0) => OutputsOf(identifier) = {}

\* C8: no two writes of one run go to the same path.
C8_WrittenOnce ==
    \A i, j \in DOMAIN writes : i # j => writes[i].path # writes[j].path

Complete(k) ==
    /\ M8(Id(k)) \in DOMAIN files
    /\ ChaiFasta(Id(k)) \in DOMAIN files
    /\ \A n \in DOMAIN Art(k).paired :
           <<Id(k), "msas", expected_basename(UnirefOf(k, n)[1])>> \in DOMAIN files

Untouched(k) ==
    /\ OutputsOf(Id(k)) = {}
    /\ \A d \in dirs : d[1] # Id(k)
    /\ \A i \in DOMAIN writes : writes[i].path[1] # Id(k)

\* in every state: the complexes before the current one are complete, those after
\* it untouched, and a run that ends without failure has completed them all
C9_InOrder ==
    /\ \A k \in 1..Len(fasta_entries) :
           /\ k < idx => Complete(k)
           /\ k > idx => Untouched(k)
    /\ pc \in {"for", "done"} => \A k \in 1..idx : Complete(k)

\* in every step: nothing runs after a failure, the loop moves to the next complex
\* only, and the outputs of the complexes before the current one do not change
C9_Step ==
    /\ pc # "failed"
    /\ idx' \in {idx, idx + 1}
    /\ \A k \in 1..(idx' - 1) :
           /\ OutputsOf(Id(k))' = OutputsOf(Id(k))
           /\ \A p \in OutputsOf(Id(k)) : files'[p] = files[p]

\* C9: complexes are staged one after another in csv order and the first failure
\* ends the run: no step follows it, no later complex is touched, and the outputs of
\* the earlier complexes are complete and unchanged.
C9_AbortOnFirstFailure == []C9_InOrder /\ [][C9_Step]_vars

\* the first of several complexes failed after its tables were written
C9_Witness ==
    /\ pc = "failed" /\ idx = 1 /\ Len(fasta_entries) > 1
    /\ OutputsOf(Id(1)) # {}

\* the last declared chain with the sequence
LastChainWith(seq) ==
    CHOOSE j \in DOMAIN sequences :
        /\ sequences[j].sequence = seq
        /\ \A l \in DOMAIN sequences : sequences[l].sequence = seq => l <= j

HasLaterCopy(j) ==
    \E l \in DOMAIN sequences : l > j /\ sequences[l].sequence = sequences[j].sequence

\* C10: main maps every upstream identifier to the letter of the last declared chain
\* with its sequence; the letter of a chain with a later copy is no value of the
\* mapping and no query_id of all_template_hits.m8, and with such a chain the mapping
\* is not onto the declared chain letters.
C10_LastMatchingChain ==
    MappingBuilt =>
        /\ \A i \in DOMAIN colab_id_to_chai_id :
               colab_id_to_chai_id[i].val
                   = ChainLetters[LastChainWith(
                         Lookup(colabfold_id_to_seq, colab_id_to_chai_id[i].key))]
        /\ \A j \in DOMAIN sequences :
               HasLaterCopy(j) =>
                   /\ ChainLetters[j] \notin Values(colab_id_to_chai_id)
                   /\ M8(identifier) \in DOMAIN files =>
                          \A r \in DOMAIN files[M8(identifier)] :
                              files[M8(identifier)][r].query_id # ChainLetters[j]
                   /\ Values(colab_id_to_chai_id) # {ChainLetters[l] : l \in DOMAIN sequences}

\* a homo-dimer whose template hits were remapped and written
C10_Witness ==
    /\ MappingBuilt
    /\ \E j \in DOMAIN sequences : HasLaterCopy(j)
    /\ M8(identifier) \in DOMAIN files
    /\ files[M8(identifier)] # <<>>

====
